---- MODULE Spec2Model ----
(***************************************************************************)
(* Sandbox session cache of the data-analysis server.                      *)
(*                                                                         *)
(* server/app.py holds the process-wide dict SESSION_CACHE and the         *)
(* /cleanup-session endpoint; server/data_analyzer_agentcore.py holds      *)
(* analyze_data_with_agentcore, which /invocations calls on a worker       *)
(* thread of the HTTP server.  A request blocks in every call to the       *)
(* remote code-interpreter service and in the agent run, and other         *)
(* requests run meanwhile: one step of the model is one such call together *)
(* with the local statements that follow it up to the next call.  The      *)
(* cache lookup at the entry of a request is a step of its own, since the  *)
(* start call that follows a miss blocks.  No lock guards SESSION_CACHE.   *)
(*                                                                         *)
(* Spec is this concurrent model.  The other specifications share its      *)
(* initial state and run one component each: SpecManager the tool adapter  *)
(* of server/tools/code_interpreter.py, SpecHttp the /invocations handler  *)
(* with the loader of server/s3_loader.py serving one request after the    *)
(* other, SpecCharts the chart discovery of server/app.py.  SpecSandbox    *)
(* is one client whose tables change between its requests, SpecChat and    *)
(* SpecUpload are the /chat and /upload handlers of server/app.py, and     *)
(* SpecAgent is one run of the agent executor.                             *)
(***************************************************************************)
EXTENDS Integers, Sequences, FiniteSets, TLC

\* ---------------------------------------------------------------- bounds
MaxSessions == 2

\* worker threads of the HTTP server that handle /invocations
Threads == {"w1", "w2"}
Keys == {"k1", "k2"}
None == "None"
NoSession == 0
KeyOrNone == Keys \cup {None}
Sids == 1..MaxSessions

START == "start_code_interpreter_session"
WRITE == "writeFiles"
EXEC == "executeCommand"
LIST == "listFiles"
AGENT == "agent"

\* values of the environment variable CODE_INTERPRETER_TOOL_ID: unset, set
\* to the empty string, set to an identifier; the environment is fixed when
\* the server process starts
ToolIds == {None, "", "ci-1"}

\* the tables (name -> dataframe) a request carries, by their names
TableSets == {{"sales", "customers"}}

\* the tables of the requests of a client whose tables change
RequestTables == {{"sales"}, {"sales", "customers"}}

VARIABLES
    SESSION_CACHE,       \* the dict, as its set of items <<key, sessionId>>
    issued,              \* number of session ids the remote service has issued
    live,                \* sessions started at the remote service and not stopped
                         \* (neither function issues a stop call)
    pc,                  \* position of each worker thread inside the request
    runtime_session_id,  \* argument of the request a thread is handling
    session_id,          \* local session_id of analyze_data_with_agentcore
    is_new_session,      \* local is_new_session
    outcome,             \* how the thread's last request ended
    calls,               \* remote calls the thread's current request has issued
    alone,               \* no other request or cleanup ran during the request
    solo,                \* no other request with the same key overlapped it
    prev,                \* lastDone of the request's key when the request began
    lastDone,            \* per key: how the last request or cleanup on it ended,
                         \* until the next request with the key begins
    failedSids,          \* sessions used by requests that raised inside the try
    cleanup_response,    \* response of the last cleanup_session call
    CODE_INTERPRETER_TOOL_ID,  \* the environment variable of that name
    dataframes,          \* argument dataframes of the request, as table names
    files,               \* per sandbox session: the paths in its file area
    code_client,         \* CodeInterpreterManager.code_client
    remote_active,       \* the manager's sandbox session exists remotely
    phase,               \* which of start_session/stop_session returned last
    lastOp,              \* the last tool-adapter operation and how it ended
    hpc,                 \* position of the /invocations handler
    hreq,                \* the request the handler serves
    idx,                 \* references load_multiple_from_s3 has loaded
    all_dataframes,      \* local all_dataframes of load_multiple_from_s3
    fetched,             \* keys get_object was called for, for this request
    started,             \* start calls issued for this request
    raised,              \* the exception raised inside the handler, if any
    hresp,               \* the response to the request
    bucket_objects,      \* the objects of the storage bucket
    chart_call,          \* the last call of _get_chart_urls_from_s3
    chart_urls,          \* what that call returned
    cpc,                 \* position of the /chat handler
    creq,                \* the /chat request and the environment it is served in
    trace_headers,       \* local trace_headers of chat
    chat_session_id,     \* local runtime_session_id of chat
    invocation,          \* keyword arguments of the invoke_agent_runtime call
    uuid_count,          \* ids uuid.uuid4 has handed out to chat
    cresp,               \* the response to the /chat request
    upc,                 \* position of the /upload handler
    normalized_files,    \* the file names of the /upload request
    upload_bucket,       \* S3_BUCKET_NAME as the /upload handler read it
    index,               \* files of the request that were uploaded
    uploaded_files,      \* local uploaded_files of upload_files
    upload_keys,         \* keys upload_fileobj stored for this request
    uresp,               \* the response to the /upload request
    apc,                 \* position of the agent executor's run
    iterations,          \* iterations of the loop the run has completed
    tool_rounds          \* tool invocations the run has issued

\* the request's own arguments and the state of the remote sandboxes
reqVars == <<CODE_INTERPRETER_TOOL_ID, dataframes>>
boxVars == <<files>>

\* state of the session cache and its requests
cacheVars == <<SESSION_CACHE, issued, live, pc, runtime_session_id, session_id,
               is_new_session, outcome, calls, alone, solo, prev, lastDone,
               failedSids, cleanup_response>>

\* state of the tool adapter (tools/code_interpreter.py)
managerVars == <<code_client, remote_active, phase, lastOp>>

\* state of the /invocations handler and the loader (app.py, s3_loader.py)
httpVars == <<hpc, hreq, idx, all_dataframes, fetched, started, raised, hresp>>

\* state of chart discovery (app.py, _get_chart_urls_from_s3)
chartVars == <<bucket_objects, chart_call, chart_urls>>
chatVars == <<cpc, creq, trace_headers, chat_session_id, invocation,
              uuid_count, cresp>>

uploadVars == <<upc, normalized_files, upload_bucket, index, uploaded_files,
                upload_keys, uresp>>

agentVars == <<apc, iterations, tool_rounds>>

\* state of the handlers that run on their own
restVars == <<chatVars, uploadVars, agentVars>>

\* state of the components outside the session cache
outsideVars == <<managerVars, httpVars, chartVars, restVars>>

\* state outside the tool adapter
nonManagerVars == <<cacheVars, reqVars, boxVars, httpVars, chartVars, restVars>>

\* state outside chart discovery
nonChartVars == <<cacheVars, reqVars, boxVars, managerVars, httpVars, restVars>>

\* what the /invocations handler leaves alone
nonHttpVars == <<pc, runtime_session_id, session_id, is_new_session, outcome,
                 calls, alone, solo, prev, lastDone, failedSids,
                 cleanup_response, reqVars, boxVars, managerVars, chartVars,
                 restVars>>

vars == <<cacheVars, reqVars, boxVars, outsideVars>>

\* ------------------------------------------------- the dict SESSION_CACHE
\* `key in d`
HasKey(d, k) == \E p \in d : p[1] = k

\* d[key]
GetItem(d, k) == (CHOOSE p \in d : p[1] = k)[2]

\* the values a dict holds for a key
Entries(d, k) == {p[2] : p \in {q \in d : q[1] = k}}

SetItemAppend(d, k, v) == d \cup {<<k, v>>}

SetItemFirstWins(d, k, v) == IF HasKey(d, k) THEN d ELSE d \cup {<<k, v>>}

\* d[key] = value
SetItem(d, k, v) == {p \in d : p[1] # k} \cup {<<k, v>>}

\* del d[key]
DelItem(d, k) == {p \in d : p[1] # k}

\* --------------------------------------------------------- invocations
ResolveKeyPayloadOnly(payload, header) == payload

\* app.py line 307: payload.runtime_session_id or the session header
ResolveKey(payload, header) == IF payload # None THEN payload ELSE header

\* --------------------------------------------- analyze_data_with_agentcore
\* line 234: the file names the prompt announces to the agent
dataframe_info(dfs) == {name \o ".csv" : name \in dfs}

PrepareFilesFirstOnly(dfs) == {(CHOOSE n \in dfs : TRUE) \o ".csv"}

\* lines 121-134: _prepare_files_for_sandbox, the paths of the files
PrepareFiles(dfs) == {n \o ".csv" : n \in dfs}

ConfigMissingUnchecked(id) == FALSE

\* line 145: not interpreter_id
ConfigMissing(id) == id \in {None, ""}

CacheHitNever(cache, k) == FALSE

\* line 153: runtime_session_id and runtime_session_id in SESSION_CACHE
CacheHit(cache, k) == k # None /\ HasKey(cache, k)

StoreSessionSkipped(cache, k, sid) == cache

StoreSessionAlways(cache, k, sid) == SetItem(cache, k, sid)

\* lines 163-164: if runtime_session_id: SESSION_CACHE[runtime_session_id] = session_id
StoreSession(cache, k, sid) == IF k # None THEN SetItem(cache, k, sid) ELSE cache

ExceptHandlerKeeps(cache, k) == cache

ExceptHandlerClears(cache, k) == {}

\* lines 267-269: the except clause before it re-raises
ExceptHandler(cache, k) ==
    IF k # None /\ HasKey(cache, k) THEN DelItem(cache, k) ELSE cache

\* a request is in flight from its entry until analyze_data_with_agentcore
\* returns or raises; at "done" the endpoint is sending the response
InFlight(t) == pc[t] \notin {"idle", "done"}

\* sending a response touches no shared state: the model lets it happen
\* before any other step
Quiet == \A u \in Threads : pc[u] # "done"

\* bookkeeping of a step of thread t: every other request in flight is no
\* longer alone
Disturb(t) == [u \in Threads |->
                 IF u # t /\ InFlight(u) THEN FALSE ELSE alone[u]]

\* lastDone of a key: "ok" after a request that ran alone returned; after a
\* request raised inside the try block, "error" when no request with the same
\* key overlapped it and "error_overlapped" otherwise; "none" initially,
\* after every other request and once the next request with the key began
Done(t, st, inTry) ==
    IF st = "ok" /\ alone[t] THEN "ok"
    ELSE IF st = "error" /\ inTry THEN (IF solo[t] THEN "error" ELSE "error_overlapped")
    ELSE "none"

Finish(t, st, cs, inTry) ==
    LET k == runtime_session_id[t] IN
    /\ pc' = [pc EXCEPT ![t] = "done"]
    /\ outcome' = [outcome EXCEPT ![t] = st]
    /\ calls' = [calls EXCEPT ![t] = cs]
    /\ lastDone' = IF k # None
                   THEN [lastDone EXCEPT ![k] = Done(t, st, inTry)]
                   ELSE lastDone
    /\ alone' = Disturb(t)

\* lines 137-155: a request for the tables dfs enters and looks its key up
BeginWith(t, k, dfs) ==
    /\ Quiet
    /\ pc[t] = "idle"
    /\ runtime_session_id' = [runtime_session_id EXCEPT ![t] = k]
    /\ IF CacheHit(SESSION_CACHE, k)
       THEN /\ session_id' = [session_id EXCEPT ![t] = GetItem(SESSION_CACHE, k)]
            /\ pc' = [pc EXCEPT ![t] = AGENT]
       ELSE /\ session_id' = [session_id EXCEPT ![t] = NoSession]
            /\ pc' = [pc EXCEPT ![t] = START]
    /\ is_new_session' = [is_new_session EXCEPT ![t] = FALSE]
    /\ outcome' = [outcome EXCEPT ![t] = "none"]
    /\ calls' = [calls EXCEPT ![t] = <<>>]
    /\ prev' = [prev EXCEPT ![t] = IF k # None /\ lastDone[k] \in {"ok", "error", "error_overlapped"}
                                      THEN lastDone[k] ELSE "none"]
    /\ alone' = [u \in Threads |->
                   IF u = t THEN \A v \in Threads \ {t} : ~InFlight(v)
                   ELSE IF InFlight(u) THEN FALSE ELSE alone[u]]
    /\ solo' = [u \in Threads |->
                  IF u = t
                  THEN \A v \in Threads \ {t} :
                          ~(InFlight(v) /\ k # None /\ runtime_session_id[v] = k)
                  ELSE IF InFlight(u) /\ k # None /\ runtime_session_id[u] = k
                       THEN FALSE ELSE solo[u]]
    /\ lastDone' = IF k # None THEN [lastDone EXCEPT ![k] = "none"] ELSE lastDone
    /\ ~ConfigMissing(CODE_INTERPRETER_TOOL_ID)
    /\ dataframes' = [dataframes EXCEPT ![t] = dfs]
    /\ UNCHANGED <<SESSION_CACHE, issued, live, failedSids, cleanup_response,
                   CODE_INTERPRETER_TOOL_ID, boxVars, outsideVars>>

\* a request for one of the table sets of the concurrent runs
Begin(t, k) == \E dfs \in TableSets : BeginWith(t, k, dfs)

\* lines 140-146: the sandbox identifier is not configured
ConfigError(t, k) ==
    /\ Quiet
    /\ pc[t] = "idle"
    /\ ConfigMissing(CODE_INTERPRETER_TOOL_ID)
    /\ \E dfs \in TableSets : dataframes' = [dataframes EXCEPT ![t] = dfs]
    /\ runtime_session_id' = [runtime_session_id EXCEPT ![t] = k]
    /\ Finish(t, "config_error", <<>>, FALSE)
    /\ UNCHANGED <<SESSION_CACHE, issued, live, session_id, is_new_session,
                   solo, prev, failedSids, cleanup_response,
                   CODE_INTERPRETER_TOOL_ID, boxVars, outsideVars>>

\* lines 157-165: the start call returns a new session id
StartSession(t) ==
    /\ Quiet
    /\ pc[t] = START
    /\ issued < MaxSessions
    /\ LET sid == issued + 1 IN
       /\ issued' = sid
       /\ live' = live \cup {sid}
       /\ session_id' = [session_id EXCEPT ![t] = sid]
       /\ SESSION_CACHE' = StoreSession(SESSION_CACHE, runtime_session_id[t], sid)
    /\ is_new_session' = [is_new_session EXCEPT ![t] = TRUE]
    /\ pc' = [pc EXCEPT ![t] = WRITE]
    /\ calls' = [calls EXCEPT ![t] = Append(@, START)]
    /\ alone' = Disturb(t)
    /\ UNCHANGED <<runtime_session_id, outcome, solo, prev, lastDone,
                   failedSids, cleanup_response, reqVars, boxVars, outsideVars>>

\* line 157 raises: the call is outside the try block
StartSessionRaises(t) ==
    /\ Quiet
    /\ pc[t] = START
    /\ Finish(t, "error", Append(calls[t], START), FALSE)
    /\ UNCHANGED <<SESSION_CACHE, issued, live, runtime_session_id, session_id,
                   is_new_session, solo, prev, failedSids, cleanup_response,
                   reqVars, boxVars, outsideVars>>

SetupCall(t, name, next) ==
    /\ Quiet
    /\ pc[t] = name
    /\ pc' = [pc EXCEPT ![t] = next]
    /\ calls' = [calls EXCEPT ![t] = Append(@, name)]
    /\ alone' = Disturb(t)
    /\ UNCHANGED <<SESSION_CACHE, issued, live, runtime_session_id, session_id,
                   is_new_session, outcome, solo, prev, lastDone, failedSids,
                   cleanup_response, reqVars, outsideVars>>

\* lines 169-178: the files of the request's tables are written
WriteFiles(t) ==
    /\ SetupCall(t, WRITE, EXEC)
    /\ files' = [files EXCEPT ![session_id[t]] = @ \cup PrepareFiles(dataframes[t])]

\* lines 180-189: executeCommand with the command "pip install boto3"
ExecuteCommand(t) ==
    /\ SetupCall(t, EXEC, LIST)
    /\ UNCHANGED boxVars

\* lines 191-200
ListFiles(t) ==
    /\ SetupCall(t, LIST, AGENT)
    /\ UNCHANGED boxVars

\* lines 204-265: tools are built, the agent runs and the result is returned
AgentRun(t) ==
    /\ Quiet
    /\ pc[t] = AGENT
    /\ Finish(t, "ok", Append(calls[t], AGENT), TRUE)
    /\ UNCHANGED <<SESSION_CACHE, issued, live, runtime_session_id, session_id,
                   is_new_session, solo, prev, failedSids, cleanup_response,
                   reqVars, boxVars, outsideVars>>

\* lines 167-270: the statement the thread is at raises inside the try block
Raise(t) ==
    /\ Quiet
    /\ pc[t] \in {WRITE, EXEC, LIST, AGENT}
    /\ SESSION_CACHE' = ExceptHandler(SESSION_CACHE, runtime_session_id[t])
    /\ failedSids' = IF runtime_session_id[t] # None
                     THEN failedSids \cup {session_id[t]} ELSE failedSids
    /\ Finish(t, "error", Append(calls[t], pc[t]), TRUE)
    /\ UNCHANGED <<issued, live, runtime_session_id, session_id, is_new_session,
                   solo, prev, cleanup_response, reqVars, boxVars, outsideVars>>

\* app.py lines 311-340: invocations sends the 200 or 500 response and the
\* worker thread is free again
Return(t) ==
    /\ pc[t] = "done"
    /\ pc' = [pc EXCEPT ![t] = "idle"]
    /\ runtime_session_id' = [runtime_session_id EXCEPT ![t] = None]
    /\ session_id' = [session_id EXCEPT ![t] = NoSession]
    /\ is_new_session' = [is_new_session EXCEPT ![t] = FALSE]
    /\ outcome' = [outcome EXCEPT ![t] = "none"]
    /\ calls' = [calls EXCEPT ![t] = <<>>]
    /\ alone' = [alone EXCEPT ![t] = TRUE]
    /\ solo' = [solo EXCEPT ![t] = TRUE]
    /\ prev' = [prev EXCEPT ![t] = "none"]
    /\ dataframes' = [dataframes EXCEPT ![t] = {}]
    /\ UNCHANGED <<SESSION_CACHE, issued, live, lastDone, failedSids,
                   cleanup_response, CODE_INTERPRETER_TOOL_ID, boxVars,
                   outsideVars>>

\* ------------------------------------------------------- cleanup_session
CleanupCacheKeeps(cache, k) == cache

CleanupCacheClears(cache, k) == {}

\* app.py lines 177-179: the cache cleanup_session leaves
CleanupCache(cache, k) == IF HasKey(cache, k) THEN DelItem(cache, k) ELSE cache

\* app.py lines 177-181: the response; found tells the message "Session ...
\* removed from cache" from "No session found"
CleanupResponse(cache, k) ==
    IF HasKey(cache, k) THEN [status |-> 200, found |-> TRUE]
    ELSE [status |-> 200, found |-> FALSE]

NoResponse == [status |-> 0, found |-> FALSE]

\* lastDone of the key after cleanup_session: "cleanup" when it removed an
\* entry, "cleanup_again" when it found none right after such a call
CleanupDone(cache, k, last) ==
    IF HasKey(cache, k) THEN "cleanup"
    ELSE IF last \in {"cleanup", "cleanup_again"} THEN "cleanup_again"
    ELSE last

cleanup_session(k) ==
    /\ Quiet
    /\ SESSION_CACHE' = CleanupCache(SESSION_CACHE, k)
    /\ cleanup_response' = CleanupResponse(SESSION_CACHE, k)
    /\ lastDone' = [lastDone EXCEPT ![k] = CleanupDone(SESSION_CACHE, k, @)]
    /\ alone' = [u \in Threads |-> IF InFlight(u) THEN FALSE ELSE alone[u]]
    /\ UNCHANGED <<issued, live, pc, runtime_session_id, session_id,
                   is_new_session, outcome, calls, solo, prev, failedSids,
                   reqVars, boxVars, outsideVars>>

\* ----------------------------------------------------------- the system
\* ------------------------------------------------- tools/code_interpreter.py
\* bounds of the response stream of one invocation
MaxEvents == 2

\* the results events carry
Results == {[content |-> "4", isError |-> FALSE],
            [content |-> "NameError", isError |-> TRUE]}

Streams == UNION {[1..n -> Results] : n \in 0..MaxEvents}

JsonBool(b) == IF b THEN "true" ELSE "false"

\* json.dumps of an event's result
JsonDumps(r) ==
    "{\"content\": \"" \o r.content \o "\", \"isError\": " \o JsonBool(r.isError) \o "}"

FirstResultEmptyText(stream) ==
    IF Len(stream) = 0 THEN "" ELSE JsonDumps(stream[1])

FirstResultLast(stream) ==
    IF Len(stream) = 0 THEN None ELSE JsonDumps(stream[Len(stream)])

\* lines 38-39 and 78-79: for event in response["stream"]: return json.dumps(...)
FirstResult(stream) ==
    IF Len(stream) = 0 THEN None ELSE JsonDumps(stream[1])

NotStartedUnchecked(client) == FALSE

\* lines 34 and 69: not code_client
NotStarted(client) == client = None

Codes == {"print(1)"}
Descriptions == {"", "total"}

\* lines 66-67: the description becomes a leading comment
WithDescription(code, description) ==
    IF description # "" THEN "# " \o description \o "\n" \o code ELSE code

NoOp == [op |-> "none", raised |-> "none", sent |-> <<>>, stream |-> <<>>,
         result |-> None]

\* lines 20-26: start_session returns
start_session ==
    /\ IF code_client = None
       THEN /\ code_client' = "client"
            /\ remote_active' = TRUE
            /\ phase' = "started"
       ELSE UNCHANGED <<code_client, remote_active, phase>>
    /\ lastOp' = NoOp
    /\ UNCHANGED nonManagerVars

\* lines 20-26: code_client.start raises after code_client was assigned
start_sessionRaises ==
    /\ code_client = None
    /\ code_client' = "client"
    /\ phase' = "start_failed"
    /\ lastOp' = NoOp
    /\ UNCHANGED <<remote_active, nonManagerVars>>

\* lines 28-31: stop_session returns
stop_session ==
    /\ IF code_client # None
       THEN /\ code_client' = None
            /\ remote_active' = FALSE
            /\ phase' = "stopped"
       ELSE UNCHANGED <<code_client, remote_active, phase>>
    /\ lastOp' = NoOp
    /\ UNCHANGED nonManagerVars

\* lines 28-31: code_client.stop raises, the client is kept
stop_sessionRaises ==
    /\ code_client # None
    /\ remote_active' \in {remote_active, FALSE}
    /\ phase' = "stop_failed"
    /\ lastOp' = NoOp
    /\ UNCHANGED <<code_client, nonManagerVars>>

\* the check for a client, the invocation and the first event of the stream
Invoke(op, tool_name, arguments) ==
    /\ IF NotStarted(code_client)
       THEN lastOp' = [op |-> op, raised |-> "not_started", sent |-> <<>>,
                       stream |-> <<>>, result |-> None]
       ELSE \/ \E stream \in Streams :
                 lastOp' = [op |-> op, raised |-> "none",
                            sent |-> <<[tool |-> tool_name, arguments |-> arguments]>>,
                            stream |-> stream, result |-> FirstResult(stream)]
            \/ lastOp' = [op |-> op, raised |-> "remote",
                          sent |-> <<[tool |-> tool_name, arguments |-> arguments]>>,
                          stream |-> <<>>, result |-> None]
    /\ UNCHANGED <<code_client, remote_active, phase, nonManagerVars>>

\* lines 33-39
invoke_tool ==
    \E code \in Codes :
        Invoke("invoke_tool", "executeCommand", [command |-> code])

\* lines 41-42
write_files ==
    \E dfs \in TableSets :
        Invoke("write_files", WRITE, [content |-> PrepareFiles(dfs)])

\* lines 44-45
list_files == Invoke("list_files", LIST, [path |-> ""])

\* lines 51-79
execute_python ==
    \E code \in Codes, description \in Descriptions :
        Invoke("execute_python", "executeCode",
               [code |-> WithDescription(code, description),
                language |-> "python", clearContext |-> FALSE])

ManagerInit ==
    /\ code_client = None
    /\ remote_active = FALSE
    /\ phase = "initial"
    /\ lastOp = NoOp

NextManager ==
    \/ start_session
    \/ start_sessionRaises
    \/ stop_session
    \/ stop_sessionRaises
    \/ invoke_tool
    \/ write_files
    \/ list_files
    \/ execute_python

\* ------------------------------------------------------------ s3_loader.py
\* the objects of the store, by the dot-separated parts of their keys
ObjectKeys == {<<"sales", "csv">>, <<"book", "XLSX">>, <<"one", "xls">>,
               <<"notes", "txt">>, <<"gone", "parquet">>, <<"events", "json">>}

\* the keys get_object fails for
Unfetchable == {<<"gone", "parquet">>}

\* the sheets of the spreadsheets of the store
SheetNames(key) ==
    IF key = <<"book", "XLSX">> THEN {"A", "B"}
    ELSE IF key = <<"one", "xls">> THEN {"A"}
    ELSE {}

\* str.lower on the extensions of the store
Lower(str) == IF str = "XLSX" THEN "xlsx" ELSE str

\* lines 14-15: key.split('.')[-1].lower()
get_file_extension(key) == Lower(key[Len(key)])

\* a table is known by the object and the sheet it was read from
Table(key, sheet) == <<key, sheet>>

NoTables == <<>>

Failure(exc) == [exception |-> exc, dataframes |-> NoTables]

load_from_s3Lenient(key) == [exception |-> "none", dataframes |-> NoTables]

\* lines 17-52: the fetch, then the reader the extension selects
load_from_s3(key) ==
    IF key \in Unfetchable THEN Failure("ClientError")
    ELSE LET file_ext == get_file_extension(key) IN
         IF file_ext \in {"csv", "parquet", "json"}
         THEN [exception |-> "none",
               dataframes |-> [n \in {"data"} |-> Table(key, "data")]]
         ELSE IF file_ext \in {"xlsx", "xls"}
         THEN [exception |-> "none",
               dataframes |-> [n \in SheetNames(key) |-> Table(key, n)]]
         ELSE Failure("ValueError")

TableNamesAlwaysPrefixed(name, dfs) == {name \o "_" \o n : n \in DOMAIN dfs}

\* lines 60-64: the names one reference's tables are stored under
TableNames(name, dfs) ==
    IF Cardinality(DOMAIN dfs) = 1
    THEN {name}
    ELSE {name \o "_" \o n : n \in DOMAIN dfs}

\* lines 60-64: all_dataframes after the tables of one reference are stored
StoreTables(all, name, dfs) ==
    LET single == Cardinality(DOMAIN dfs) = 1
        SheetOf(x) == IF single THEN CHOOSE n \in DOMAIN dfs : TRUE
                      ELSE CHOOSE n \in DOMAIN dfs : x = name \o "_" \o n
    IN  [x \in DOMAIN all \cup TableNames(name, dfs) |->
            IF x \in TableNames(name, dfs) THEN dfs[SheetOf(x)] ELSE all[x]]

\* ------------------------------------------------------- POST /invocations
MaxRefs == 2

Names == {"N", "N_A"}
Prompts == {"", "how many rows?"}
Variants == {"fastapi", "flask"}

\* the s3_urls dicts: name -> object, in insertion order, names distinct
S3UrlDicts ==
    {d \in UNION {[1..n -> [name : Names, key : ObjectKeys]] : n \in 0..MaxRefs} :
        \A i \in 1..Len(d), j \in 1..Len(d) : d[i].name = d[j].name => i = j}

NoRequest == [variant |-> "none", s3_urls |-> <<>>, prompt |-> "",
              runtime_session_id |-> None]

NoException == [kind |-> "none", status |-> 0, message |-> ""]

NoResp == [status |-> 0, error |-> "", traceback |-> "", dataframes_loaded |-> {}]

HTTPException(status, detail) ==
    [kind |-> "HTTPException", status |-> status, message |-> detail]

Exception(name) == [kind |-> name, status |-> 0, message |-> name]

\* traceback.format_exc() of an exception
FormatExc(exc) == "Traceback (most recent call last): " \o exc.message

Ok(names) == [status |-> 200, error |-> "", traceback |-> "",
              dataframes_loaded |-> names]

\* server/app.py lines 273-283, src/app.py lines 33-41: the response to a
\* request that fails validation
Rejected(detail) == [status |-> 400, error |-> detail, traceback |-> "",
                     dataframes_loaded |-> {}]

ExceptClausesCatchAll(variant, exc) ==
    [status |-> 500, error |-> exc.message, traceback |-> FormatExc(exc),
     dataframes_loaded |-> {}]

\* server/app.py lines 329-340, src/app.py lines 60-66: the except clauses
ExceptClauses(variant, exc) ==
    IF variant = "fastapi" /\ exc.kind = "HTTPException"
    THEN [status |-> exc.status, error |-> exc.message, traceback |-> "",
          dataframes_loaded |-> {}]
    ELSE [status |-> 500, error |-> exc.message, traceback |-> FormatExc(exc),
          dataframes_loaded |-> {}]

ValidationErrorNone(s3_urls, prompt) == ""

\* server/app.py lines 273-283, src/app.py lines 33-41
ValidationError(s3_urls, prompt) ==
    IF Len(s3_urls) = 0
    THEN "No S3 URLs provided. Expected 's3_urls' field with dict of name->S3 URL"
    ELSE IF prompt = "" THEN "No prompt provided"
    ELSE ""

\* the handler ends: with an exception raised inside the try block (fastapi
\* raises its 400s, flask returns them) or with a response it returns
Fail(variant, exc) ==
    /\ hpc' = "responded"
    /\ raised' = exc
    /\ hresp' = ExceptClauses(variant, exc)

Respond(resp) ==
    /\ hpc' = "responded"
    /\ raised' = NoException
    /\ hresp' = resp

Reject(variant, detail) ==
    IF variant = "fastapi"
    THEN Fail(variant, HTTPException(400, detail))
    ELSE Respond(Rejected(detail))

\* server/app.py lines 267-293, src/app.py lines 25-41: a request arrives and
\* is validated
Receive(variant, s3_urls, prompt, k) ==
    /\ hpc = "idle"
    /\ hreq' = [variant |-> variant, s3_urls |-> s3_urls, prompt |-> prompt,
                runtime_session_id |-> k]
    /\ idx' = 0
    /\ all_dataframes' = NoTables
    /\ fetched' = <<>>
    /\ started' = 0
    /\ IF ValidationError(s3_urls, prompt) # ""
       THEN Reject(variant, ValidationError(s3_urls, prompt))
       ELSE /\ hpc' = "load"
            /\ raised' = NoException
            /\ hresp' = NoResp
    /\ UNCHANGED <<SESSION_CACHE, issued, live, nonHttpVars>>

\* s3_loader.py lines 57-64 and server/app.py lines 295-301: one reference is
\* fetched and read; after the last one the handler goes on
LoadOne ==
    /\ hpc = "load"
    /\ idx < Len(hreq.s3_urls)
    /\ LET ref == hreq.s3_urls[idx + 1]
           loaded == load_from_s3(ref.key)
           all == StoreTables(all_dataframes, ref.name, loaded.dataframes)
       IN  /\ fetched' = Append(fetched, ref.key)
           /\ IF loaded.exception # "none"
              THEN /\ Fail(hreq.variant, Exception(loaded.exception))
                   /\ all_dataframes' = NoTables
                   /\ UNCHANGED idx
              ELSE /\ idx' = idx + 1
                   /\ all_dataframes' = all
                   /\ IF idx + 1 < Len(hreq.s3_urls)
                      THEN UNCHANGED <<hpc, raised, hresp>>
                      ELSE IF DOMAIN all = {}
                      THEN Reject(hreq.variant, "No dataframes loaded from S3")
                      ELSE /\ hpc' = "analyze"
                           /\ UNCHANGED <<raised, hresp>>
    /\ UNCHANGED <<hreq, started, SESSION_CACHE, issued, live, nonHttpVars>>

\* the sandbox part of analyze_data_with_agentcore, run to its end by the one
\* request: the session of the key, or a new one (lines 153-164)
AnalyzeSession(k, fails) ==
    IF CacheHit(SESSION_CACHE, k)
    THEN /\ started' = 0
         /\ SESSION_CACHE' = IF fails THEN ExceptHandler(SESSION_CACHE, k)
                                       ELSE SESSION_CACHE
         /\ UNCHANGED <<issued, live>>
    ELSE /\ issued < MaxSessions
         /\ started' = 1
         /\ issued' = issued + 1
         /\ live' = live \cup {issued + 1}
         /\ SESSION_CACHE' =
               IF fails
               THEN ExceptHandler(StoreSession(SESSION_CACHE, k, issued + 1), k)
               ELSE StoreSession(SESSION_CACHE, k, issued + 1)

\* server/app.py lines 303-327, src/app.py lines 50-58: the analysis returns
AnalyzeReturns ==
    /\ hpc = "analyze"
    /\ IF hreq.variant = "fastapi"
       THEN /\ ~ConfigMissing(CODE_INTERPRETER_TOOL_ID)
            /\ AnalyzeSession(hreq.runtime_session_id, FALSE)
       ELSE UNCHANGED <<started, SESSION_CACHE, issued, live>>
    /\ Respond(Ok(DOMAIN all_dataframes))
    /\ UNCHANGED <<hreq, idx, all_dataframes, fetched, nonHttpVars>>

\* server/app.py lines 303-309, src/app.py lines 50-52: the analysis raises:
\* before the start call, in the start call or inside the try block
AnalyzeRaises ==
    /\ hpc = "analyze"
    /\ \/ /\ hreq.variant = "fastapi"
          /\ ConfigMissing(CODE_INTERPRETER_TOOL_ID)
          /\ Fail(hreq.variant, Exception("ValueError"))
          /\ UNCHANGED <<started, SESSION_CACHE, issued, live>>
       \/ /\ hreq.variant = "fastapi"
          /\ ~ConfigMissing(CODE_INTERPRETER_TOOL_ID)
          /\ ~CacheHit(SESSION_CACHE, hreq.runtime_session_id)
          /\ started' = 1
          /\ Fail(hreq.variant, Exception("ClientError"))
          /\ UNCHANGED <<SESSION_CACHE, issued, live>>
       \/ /\ hreq.variant = "fastapi"
          /\ ~ConfigMissing(CODE_INTERPRETER_TOOL_ID)
          /\ AnalyzeSession(hreq.runtime_session_id, TRUE)
          /\ Fail(hreq.variant, Exception("RuntimeError"))
       \/ /\ hreq.variant = "flask"
          /\ Fail(hreq.variant, Exception("RuntimeError"))
          /\ UNCHANGED <<started, SESSION_CACHE, issued, live>>
    /\ UNCHANGED <<hreq, idx, all_dataframes, fetched, nonHttpVars>>

\* the response is sent and the request is over
Close ==
    /\ hpc = "responded"
    /\ hpc' = "idle"
    /\ hreq' = NoRequest
    /\ idx' = 0
    /\ all_dataframes' = NoTables
    /\ fetched' = <<>>
    /\ started' = 0
    /\ raised' = NoException
    /\ hresp' = NoResp
    /\ UNCHANGED <<SESSION_CACHE, issued, live, nonHttpVars>>

HttpInit ==
    /\ hpc = "idle"
    /\ hreq = NoRequest
    /\ idx = 0
    /\ all_dataframes = NoTables
    /\ fetched = <<>>
    /\ started = 0
    /\ raised = NoException
    /\ hresp = NoResp

NextHttp ==
    \/ \E variant \in Variants, s3_urls \in S3UrlDicts, prompt \in Prompts,
          payload \in KeyOrNone, header \in KeyOrNone :
            Receive(variant, s3_urls, prompt, ResolveKey(payload, header))
    \/ LoadOne
    \/ AnalyzeReturns
    \/ AnalyzeRaises
    \/ Close

\* --------------------------------------------------------- chart discovery
\* the objects the bucket may hold: the segments of the key's directory and
\* the dot-separated parts of its last segment
ChartObjects ==
    {[dir |-> <<"charts", "k1">>, name |-> <<"a", "png">>],
     [dir |-> <<"charts", "k1">>, name |-> <<"b", "txt">>],
     [dir |-> <<"charts", "k1">>, name |-> <<"c", "JPG">>],
     [dir |-> <<"charts", "k1">>, name |-> <<"d", "jpeg">>],
     [dir |-> <<"charts", "k1", "sub">>, name |-> <<"e", "Svg">>],
     [dir |-> <<"charts", "k1">>, name |-> <<"f", "pdf">>],
     [dir |-> <<"charts", "k1">>, name |-> <<"png">>],
     [dir |-> <<"charts", "k2">>, name |-> <<"g", "png">>]}

\* str.startswith on the segments of a key
StartsWith(segments, prefix) ==
    /\ Len(prefix) <= Len(segments)
    /\ \A i \in 1..Len(prefix) : segments[i] = prefix[i]

\* line 144: the prefix charts/{session_id}/
ChartPrefix(sid) == <<"charts", sid>>

\* line 146: the Contents of list_objects_v2 for the prefix
Contents(objects, prefix) == {o \in objects : StartsWith(o.dir, prefix)}

\* str.lower on the extensions of the bucket
LowerExt(str) ==
    IF str = "JPG" THEN "jpg" ELSE IF str = "Svg" THEN "svg" ELSE str

IsChartCaseSensitive(name) ==
    /\ Len(name) >= 2
    /\ name[Len(name)] \in {"png", "jpg", "jpeg", "svg", "pdf"}

\* line 154: key.lower().endswith(('.png', '.jpg', '.jpeg', '.svg', '.pdf'))
IsChart(name) ==
    /\ Len(name) >= 2
    /\ LowerExt(name[Len(name)]) \in {"png", "jpg", "jpeg", "svg", "pdf"}

\* lines 155-159: generate_presigned_url for the object
PresignedUrl(o) == [method |-> "get_object", key |-> o, ExpiresIn |-> 3600]

\* lines 151-160: the URLs of the chart objects, as a list
RECURSIVE ChartUrls(_)
ChartUrls(contents) ==
    IF contents = {} THEN <<>>
    ELSE LET o == CHOOSE x \in contents : TRUE
             rest == ChartUrls(contents \ {o})
         IN  IF IsChart(o.name) THEN <<PresignedUrl(o)>> \o rest ELSE rest

NoChartCall == [session_id |-> None, listing |-> "none"]

\* an object is stored in the bucket
PutObject(o) ==
    /\ o \notin bucket_objects
    /\ bucket_objects' = bucket_objects \cup {o}
    /\ chart_call' = NoChartCall
    /\ chart_urls' = <<>>
    /\ UNCHANGED nonChartVars

\* lines 141-162: the listing succeeds
get_chart_urls_from_s3(sid) ==
    /\ chart_call' = [session_id |-> sid, listing |-> "ok"]
    /\ chart_urls' = ChartUrls(Contents(bucket_objects, ChartPrefix(sid)))
    /\ UNCHANGED <<bucket_objects, nonChartVars>>

\* lines 163-165: list_objects_v2 raises BotoCoreError or ClientError
get_chart_urls_from_s3ListingFails(sid) ==
    /\ chart_call' = [session_id |-> sid, listing |-> "failed"]
    /\ chart_urls' = <<>>
    /\ UNCHANGED <<bucket_objects, nonChartVars>>

ChartInit ==
    /\ bucket_objects = {}
    /\ chart_call = NoChartCall
    /\ chart_urls = <<>>

NextCharts ==
    \/ \E o \in ChartObjects : PutObject(o)
    \/ \E k \in Keys : get_chart_urls_from_s3(k)
    \/ \E k \in Keys : get_chart_urls_from_s3ListingFails(k)

\* ------------------------------------------------------------- POST /chat
MaxUuids == 2

SessionHeader == "x-amzn-bedrock-agentcore-runtime-session-id"

\* lines 109-116
TRACE_HEADER_KEYS ==
    {"x-amzn-trace-id", "traceparent", "tracestate", "baggage",
     SessionHeader, "mcp-session-id"}

\* str.lower on the header names of the requests
key_lower(key) ==
    IF key = "Traceparent" THEN "traceparent"
    ELSE IF key = "X-Amzn-Bedrock-AgentCore-Runtime-Session-Id" THEN SessionHeader
    ELSE key

\* request headers, each a dict given as its set of <<name, value>> items
HeaderSets ==
    {{},
     {<<"accept", "*/*">>},
     {<<"traceparent", "00-ab-01">>},
     {<<SessionHeader, "k1">>, <<"traceparent", "00-ab-01">>, <<"accept", "*/*">>},
     {<<SessionHeader, "">>},
     {<<"X-Amzn-Bedrock-AgentCore-Runtime-Session-Id", "k2">>,
      <<"Traceparent", "00-cd-01">>}}

\* os.environ as the handler reads it while it serves one request
Environs ==
    [BEDROCK_AGENT_RUNTIME_ARN : {None, "arn:runtime"},
     BEDROCK_AGENT_RUNTIME_SESSION_ID : {None, "", "env-1"},
     S3_BUCKET_NAME : {None, "bucket"}]

ChatS3Urls == {<<>>, <<[name |-> "N", uri |-> "s3://b/sales.csv"]>>}

\* lines 119-125: the items whose lower-cased name is a trace header name,
\* under the name they came with
extract_trace_headers(headers) ==
    {h \in headers : key_lower(h[1]) \in TRACE_HEADER_KEYS}

\* lines 128-138, for the one override field of the requests
extract_trace_payload_overrides(traceparent) ==
    IF traceparent # "" THEN {<<"traceparent", traceparent>>} ELSE {}

\* lines 384-391: the value of the session header among the trace headers
HeaderSessionId(headers) ==
    IF \E h \in headers : key_lower(h[1]) = SessionHeader
    THEN (CHOOSE h \in headers : key_lower(h[1]) = SessionHeader)[2]
    ELSE None

\* uuid.uuid4().hex, the n-th id handed out
Uuid4Hex(n) == "uuid-" \o <<"1", "2", "3", "4">>[n]

ResolveRuntimeSessionIdNoEnviron(header, environ, fresh) ==
    IF header \notin {None, ""} THEN header ELSE fresh

\* lines 384-393: the header's value, else the environment's, else a new id
ResolveRuntimeSessionId(header, environ, fresh) ==
    IF header \notin {None, ""} THEN header
    ELSE IF environ \notin {None, ""} THEN environ
    ELSE fresh

\* lines 397-402: json.dumps({"s3_urls": s3_urls, "prompt": prompt})
RuntimePayload(s3_urls, prompt) ==
    "{\"s3_urls\": {\"" \o s3_urls[1].name \o "\": \"" \o s3_urls[1].uri
        \o "\"}, \"prompt\": \"" \o prompt \o "\"}"

\* lines 414-420: the keyword arguments of client.invoke_agent_runtime
InvokeAgentRuntimeArgs(arn, sid, payload, qualifier) ==
    {<<"agentRuntimeArn", arn>>, <<"runtimeSessionId", sid>>,
     <<"payload", payload>>, <<"qualifier", qualifier>>}

NoChatRequest == [headers |-> {}, s3_urls |-> <<>>, prompt |-> "",
                  traceparent |-> "",
                  environ |-> [BEDROCK_AGENT_RUNTIME_ARN |-> None,
                               BEDROCK_AGENT_RUNTIME_SESSION_ID |-> None,
                               S3_BUCKET_NAME |-> None]]

NoChatResp == [status |-> 0, detail |-> "", charts |-> <<>>, headers |-> {},
               payload |-> {}, runtime_session_id |-> None]

\* lines 505-507: an HTTPException leaves the handler as it is
ChatError(status, detail) ==
    [status |-> status, detail |-> detail, charts |-> <<>>, headers |-> {},
     payload |-> {}, runtime_session_id |-> None]

\* lines 493-503: the response of a request that was served
ChatOk(charts, headers, payload, sid) ==
    [status |-> 200, detail |-> "", charts |-> charts, headers |-> headers,
     payload |-> payload, runtime_session_id |-> sid]

nonChatVars == <<cacheVars, reqVars, boxVars, managerVars, httpVars,
                 bucket_objects, uploadVars, agentVars>>

\* lines 343-420: the request is validated, its session id is resolved and
\* the remote runtime is invoked
ChatReceive(headers, s3_urls, prompt, traceparent, environ) ==
    LET header == HeaderSessionId(extract_trace_headers(headers))
        needs_uuid == /\ header \in {None, ""}
                      /\ environ.BEDROCK_AGENT_RUNTIME_SESSION_ID \in {None, ""}
        sid == ResolveRuntimeSessionId(header,
                                       environ.BEDROCK_AGENT_RUNTIME_SESSION_ID,
                                       Uuid4Hex(uuid_count + 1))
        validates == s3_urls # <<>> /\ prompt # ""
        invokes == validates /\ environ.BEDROCK_AGENT_RUNTIME_ARN \notin {None, ""}
    IN
    /\ cpc = "idle"
    /\ (invokes /\ needs_uuid) => uuid_count < MaxUuids
    /\ creq' = [headers |-> headers, s3_urls |-> s3_urls, prompt |-> prompt,
                traceparent |-> traceparent, environ |-> environ]
    /\ trace_headers' = IF validates THEN extract_trace_headers(headers) ELSE {}
    /\ IF s3_urls = <<>>
       THEN /\ cresp' = ChatError(400, "No S3 URLs provided")
            /\ cpc' = "responded"
            /\ UNCHANGED <<chat_session_id, invocation, uuid_count>>
       ELSE IF prompt = ""
       THEN /\ cresp' = ChatError(400, "No prompt provided")
            /\ cpc' = "responded"
            /\ UNCHANGED <<chat_session_id, invocation, uuid_count>>
       ELSE IF ~invokes
       THEN /\ cresp' = ChatError(500, "BEDROCK_AGENT_RUNTIME_ARN must be set")
            /\ cpc' = "responded"
            /\ UNCHANGED <<chat_session_id, invocation, uuid_count>>
       ELSE /\ chat_session_id' = sid
            /\ uuid_count' = IF needs_uuid THEN uuid_count + 1 ELSE uuid_count
            /\ invocation' = InvokeAgentRuntimeArgs(
                                 environ.BEDROCK_AGENT_RUNTIME_ARN, sid,
                                 RuntimePayload(s3_urls, prompt), "DEFAULT")
            /\ cpc' = "invoke"
            /\ cresp' = NoChatResp
    /\ UNCHANGED <<nonChatVars, chart_call, chart_urls>>

\* lines 421-441: the invocation raises, or its response has no stream
ChatInvokeFails ==
    /\ cpc = "invoke"
    /\ \E detail \in {"AWS credentials not found",
                       "Failed to invoke Bedrock Agent Runtime",
                       "Bedrock Agent Runtime response malformed"} :
          cresp' = ChatError(500, detail)
    /\ cpc' = "responded"
    /\ UNCHANGED <<creq, trace_headers, chat_session_id, invocation, uuid_count,
                   nonChatVars, chart_call, chart_urls>>

\* lines 443-503: the invocation returns, the body is read, the charts of the
\* session are looked up when a bucket is configured, the response is built
ChatInvokeReturns ==
    /\ cpc = "invoke"
    /\ IF creq.environ.S3_BUCKET_NAME \notin {None, ""}
       THEN \E listing \in {"ok", "failed"} :
               /\ chart_call' = [session_id |-> chat_session_id,
                                 listing |-> listing]
               /\ chart_urls' =
                     IF listing = "ok"
                     THEN ChartUrls(Contents(bucket_objects,
                                             ChartPrefix(chat_session_id)))
                     ELSE <<>>
       ELSE /\ chart_call' = NoChartCall
            /\ chart_urls' = <<>>
    /\ cresp' = ChatOk(chart_urls', trace_headers,
                       extract_trace_payload_overrides(creq.traceparent),
                       chat_session_id)
    /\ cpc' = "responded"
    /\ UNCHANGED <<creq, trace_headers, chat_session_id, invocation, uuid_count,
                   nonChatVars>>

\* the response is sent and the request is over
ChatClose ==
    /\ cpc = "responded"
    /\ cpc' = "idle"
    /\ creq' = NoChatRequest
    /\ trace_headers' = {}
    /\ chat_session_id' = None
    /\ invocation' = {}
    /\ cresp' = NoChatResp
    /\ chart_call' = NoChartCall
    /\ chart_urls' = <<>>
    /\ UNCHANGED <<uuid_count, nonChatVars>>

ChatInit ==
    /\ cpc = "idle"
    /\ creq = NoChatRequest
    /\ trace_headers = {}
    /\ chat_session_id = None
    /\ invocation = {}
    /\ uuid_count = 0
    /\ cresp = NoChatResp

NextChat ==
    \/ \E headers \in HeaderSets, s3_urls \in ChatS3Urls, prompt \in Prompts,
          traceparent \in {"", "00-ef-01"}, environ \in Environs :
          ChatReceive(headers, s3_urls, prompt, traceparent, environ)
    \/ ChatInvokeFails
    \/ ChatInvokeReturns
    \/ ChatClose

\* ----------------------------------------------------------- POST /upload
MaxFiles == 2

\* upload.filename, as its parts between the dots
Filenames == {<<"a", "csv">>, <<"a", "xlsx">>, <<"b", "csv">>, <<>>}

UploadRequests == UNION {[1..n -> Filenames] : n \in 0..MaxFiles}

\* line 213: os.path.splitext(os.path.basename(upload.filename))
splitext(filename) ==
    IF Len(filename) = 0 THEN [base_name |-> "", extension |-> ""]
    ELSE IF Len(filename) = 1 THEN [base_name |-> filename[1], extension |-> ""]
    ELSE [base_name |-> filename[1], extension |-> "." \o filename[2]]

\* str(index) of the indices of a request
Str(n) == <<"0", "1", "2", "3">>[n + 1]

\* line 214: base_name or f"file_{index}"
sanitized_name(filename, i) ==
    IF splitext(filename).base_name # "" THEN splitext(filename).base_name
    ELSE "file_" \o Str(i)

\* line 215: f"{sanitized_name}_{uuid.uuid4().hex}{extension}", with the
\* i-th id handed out while the request is served
unique_key(filename, i) ==
    sanitized_name(filename, i) \o "_" \o Uuid4Hex(i + 1)
        \o splitext(filename).extension

\* line 247: f"s3://{bucket}/{unique_key}"
S3Url(bucket, key) == "s3://" \o bucket \o "/" \o key

NoUploadResp == [status |-> 0, detail |-> "", s3_urls |-> {}]

UploadError(status, detail) ==
    [status |-> status, detail |-> detail, s3_urls |-> {}]

\* line 254
UploadOk(urls) == [status |-> 200, detail |-> "", s3_urls |-> urls]

nonUploadVars == <<cacheVars, reqVars, boxVars, managerVars, httpVars,
                   chartVars, chatVars, agentVars>>

\* lines 184-210: the request arrives, the bucket is read
UploadReceive(files_, environ_bucket) ==
    /\ upc = "idle"
    /\ normalized_files' = files_
    /\ upload_bucket' = environ_bucket
    /\ index' = 0
    /\ uploaded_files' = {}
    /\ upload_keys' = {}
    /\ IF files_ = <<>>
       THEN /\ uresp' = UploadError(400, "No files provided")
            /\ upc' = "responded"
       ELSE IF environ_bucket \in {None, ""}
       THEN /\ uresp' = UploadError(500, "S3_BUCKET_NAME is not set")
            /\ upc' = "responded"
       ELSE /\ uresp' = NoUploadResp
            /\ upc' = "upload"
    /\ UNCHANGED <<nonUploadVars>>

\* lines 212-254: upload_fileobj stores one file and its URL is recorded
\* under the file's base name; after the last file the handler returns
UploadOne ==
    /\ upc = "upload"
    /\ index < Len(normalized_files)
    /\ LET filename == normalized_files[index + 1]
           key == unique_key(filename, index)
           urls == SetItem(uploaded_files, sanitized_name(filename, index),
                           S3Url(upload_bucket, key))
       IN  /\ upload_keys' = upload_keys \cup {key}
           /\ uploaded_files' = urls
           /\ index' = index + 1
           /\ IF index + 1 < Len(normalized_files)
              THEN UNCHANGED <<upc, uresp>>
              ELSE /\ upc' = "responded"
                   /\ uresp' = UploadOk(urls)
    /\ UNCHANGED <<normalized_files, upload_bucket, nonUploadVars>>

\* lines 217-245: upload_fileobj raises
UploadOneFails ==
    /\ upc = "upload"
    /\ index < Len(normalized_files)
    /\ \E detail \in {"AWS credentials not found", "Failed to upload"} :
          uresp' = UploadError(500, detail)
    /\ upc' = "responded"
    /\ UNCHANGED <<normalized_files, upload_bucket, index, uploaded_files,
                   upload_keys, nonUploadVars>>

\* the response is sent and the request is over
UploadClose ==
    /\ upc = "responded"
    /\ upc' = "idle"
    /\ normalized_files' = <<>>
    /\ upload_bucket' = None
    /\ index' = 0
    /\ uploaded_files' = {}
    /\ upload_keys' = {}
    /\ uresp' = NoUploadResp
    /\ UNCHANGED <<nonUploadVars>>

UploadInit ==
    /\ upc = "idle"
    /\ normalized_files = <<>>
    /\ upload_bucket = None
    /\ index = 0
    /\ uploaded_files = {}
    /\ upload_keys = {}
    /\ uresp = NoUploadResp

NextUpload ==
    \/ \E files_ \in UploadRequests, environ_bucket \in {None, "bucket"} :
          UploadReceive(files_, environ_bucket)
    \/ UploadOne
    \/ UploadOneFails
    \/ UploadClose

\* ------------------------------------------------------ the agent executor
AgentExecutorArgsOneMore ==
    [max_iterations |-> 41, early_stopping_method |-> "generate",
     handle_parsing_errors |-> TRUE]

\* data_analyzer_agentcore.py lines 224-232: the arguments the executor is
\* built with
AgentExecutorArgs ==
    [max_iterations |-> 40, early_stopping_method |-> "generate",
     handle_parsing_errors |-> TRUE]

\* the loop goes on while the iteration budget is not used up
ShouldContinue(n, max_iterations) == n < max_iterations

\* what a model turn gives: a final answer, a tool call, output that does not
\* parse, or a failure of the model call
ModelTurns == {"final", "action", "parse_error", "raises"}

nonAgentVars == <<cacheVars, reqVars, boxVars, managerVars, httpVars,
                  chartVars, chatVars, uploadVars>>

\* line 263: agent_executor.invoke starts a run
AgentInvoke ==
    /\ apc = "idle"
    /\ apc' = "model"
    /\ iterations' = 0
    /\ tool_rounds' = 0
    /\ UNCHANGED nonAgentVars

\* the model is asked for a tool call or a final answer; output that does not
\* parse is fed back as an observation and uses one iteration up
ModelTurn ==
    /\ apc = "model"
    /\ ShouldContinue(iterations, AgentExecutorArgs.max_iterations)
    /\ \E turn \in ModelTurns :
          \/ /\ turn = "final"
             /\ apc' = "finished"
             /\ UNCHANGED iterations
          \/ /\ turn = "action"
             /\ apc' = "tool"
             /\ UNCHANGED iterations
          \/ /\ turn = "parse_error"
             /\ AgentExecutorArgs.handle_parsing_errors
             /\ apc' = "model"
             /\ iterations' = iterations + 1
          \/ /\ turn = "raises"
             /\ apc' = "raised"
             /\ UNCHANGED iterations
    /\ UNCHANGED <<tool_rounds, nonAgentVars>>

\* the tool the model asked for is invoked; its result becomes an
\* observation and the iteration is over, or the call raises
ToolInvocation ==
    /\ apc = "tool"
    /\ tool_rounds' = tool_rounds + 1
    /\ \/ /\ apc' = "model"
          /\ iterations' = iterations + 1
       \/ /\ apc' = "raised"
          /\ UNCHANGED iterations
    /\ UNCHANGED nonAgentVars

\* the budget is used up: the run ends with the stopped response of the
\* early stopping method, or with the error of a method the agent lacks
BudgetExhausted ==
    /\ apc = "model"
    /\ ~ShouldContinue(iterations, AgentExecutorArgs.max_iterations)
    /\ apc' \in {"stopped", "raised"}
    /\ UNCHANGED <<iterations, tool_rounds, nonAgentVars>>

AgentInit ==
    /\ apc = "idle"
    /\ iterations = 0
    /\ tool_rounds = 0

NextAgent ==
    \/ AgentInvoke
    \/ ModelTurn
    \/ ToolInvocation
    \/ BudgetExhausted

\* ------------------------------------------------------------------ system
Init ==
    /\ SESSION_CACHE = {}
    /\ issued = 0
    /\ live = {}
    /\ pc = [t \in Threads |-> "idle"]
    /\ runtime_session_id = [t \in Threads |-> None]
    /\ session_id = [t \in Threads |-> NoSession]
    /\ is_new_session = [t \in Threads |-> FALSE]
    /\ outcome = [t \in Threads |-> "none"]
    /\ calls = [t \in Threads |-> <<>>]
    /\ alone = [t \in Threads |-> TRUE]
    /\ solo = [t \in Threads |-> TRUE]
    /\ prev = [t \in Threads |-> "none"]
    /\ lastDone = [k \in Keys |-> "none"]
    /\ failedSids = {}
    /\ cleanup_response = NoResponse
    /\ CODE_INTERPRETER_TOOL_ID \in ToolIds
    /\ dataframes = [t \in Threads |-> {}]
    /\ files = [s \in Sids |-> {}]
    /\ ManagerInit
    /\ HttpInit
    /\ ChartInit
    /\ ChatInit
    /\ UploadInit
    /\ AgentInit

Next ==
    \/ \E t \in Threads, payload \in KeyOrNone, header \in KeyOrNone :
          Begin(t, ResolveKey(payload, header))
    \/ \E t \in Threads, payload \in KeyOrNone, header \in KeyOrNone :
          ConfigError(t, ResolveKey(payload, header))
    \/ \E t \in Threads : StartSession(t)
    \/ \E t \in Threads : StartSessionRaises(t)
    \/ \E t \in Threads : WriteFiles(t)
    \/ \E t \in Threads : ExecuteCommand(t)
    \/ \E t \in Threads : ListFiles(t)
    \/ \E t \in Threads : AgentRun(t)
    \/ \E t \in Threads : Raise(t)
    \/ \E t \in Threads : Return(t)
    \/ \E k \in Keys : cleanup_session(k)

Spec == Init /\ [][Next]_vars

\* one client sending one request after the other, with tables that change
\* from request to request
NextSandbox ==
    \/ \E k \in KeyOrNone, dfs \in RequestTables : BeginWith("w1", k, dfs)
    \/ StartSession("w1")
    \/ WriteFiles("w1")
    \/ ExecuteCommand("w1")
    \/ ListFiles("w1")
    \/ AgentRun("w1")
    \/ Raise("w1")
    \/ Return("w1")

SpecSandbox == Init /\ [][NextSandbox]_vars

\* the /chat handler serving one request after the other
SpecChat == Init /\ [][NextChat]_vars

\* the /upload handler serving one request after the other
SpecUpload == Init /\ [][NextUpload]_vars

\* one run of the agent executor; every model call and every tool call the
\* run waits for comes back, with a result or with an error
SpecAgent == Init /\ [][NextAgent]_vars /\ WF_vars(NextAgent)

\* the tool adapter on its own
SpecManager == Init /\ [][NextManager]_vars

\* the /invocations handler serving one request after the other
SpecHttp == Init /\ [][NextHttp]_vars

\* chart discovery on a bucket that fills
SpecCharts == Init /\ [][NextCharts]_vars

TypeOK ==
    /\ SESSION_CACHE \subseteq Keys \X Sids
    /\ issued \in 0..MaxSessions
    /\ live \subseteq Sids
    /\ pc \in [Threads -> {"idle", START, WRITE, EXEC, LIST, AGENT, "done"}]
    /\ runtime_session_id \in [Threads -> KeyOrNone]
    /\ session_id \in [Threads -> Sids \cup {NoSession}]
    /\ is_new_session \in [Threads -> BOOLEAN]
    /\ outcome \in [Threads -> {"none", "ok", "error", "config_error"}]
    /\ CODE_INTERPRETER_TOOL_ID \in ToolIds
    /\ dataframes \in [Threads -> TableSets \cup {{}}]

\* ------------------------------------------------------------ properties
\* number of calls named x in a call log
Count(cs, x) == Cardinality({i \in 1..Len(cs) : cs[i] = x})

\* the request of thread t has returned successfully (the state at "done" is
\* the state the request left: the response is sent before any other step)
ReturnedOk(t) == pc[t] = "done" /\ outcome[t] = "ok"

\* the request of thread t has raised
Raised(t) == pc[t] = "done" /\ outcome[t] = "error"

NoSetup(cs) == Count(cs, START) = 0 /\ Count(cs, WRITE) = 0
               /\ Count(cs, EXEC) = 0 /\ Count(cs, LIST) = 0

OneSetup(cs) == Count(cs, START) = 1 /\ Count(cs, WRITE) = 1
                /\ Count(cs, EXEC) = 1 /\ Count(cs, LIST) = 1

\* C1: of two sequential requests with the same key, the first successful and
\* no cleanup between them, the first (on a fresh key) issues exactly one
\* start call and one writeFiles/setup sequence and the second issues none:
\* one start call and one setup sequence in total.
C1_SessionReuse ==
    \A t \in Threads :
        (ReturnedOk(t) /\ alone[t] /\ runtime_session_id[t] # None) =>
            /\ is_new_session[t] => OneSetup(calls[t])
            /\ prev[t] = "ok" => ~is_new_session[t] /\ NoSetup(calls[t])

C1_Witness ==
    \E t \in Threads :
        /\ ReturnedOk(t) /\ alone[t] /\ runtime_session_id[t] # None
        /\ prev[t] = "ok" /\ calls[t] = <<AGENT>>
        /\ Entries(SESSION_CACHE, runtime_session_id[t]) = {session_id[t]}

\* C2: a request with a fresh key that newly started a session and then
\* raised (setup call, tool construction or agent run) leaves no entry for
\* its key in SESSION_CACHE when the exception leaves the function.
C2_TeardownOnError ==
    \A t \in Threads :
        (Raised(t) /\ is_new_session[t] /\ runtime_session_id[t] # None) =>
            ~HasKey(SESSION_CACHE, runtime_session_id[t])

C2_Witness ==
    \E t \in Threads :
        /\ Raised(t) /\ is_new_session[t] /\ runtime_session_id[t] # None
        /\ session_id[t] \in live
        /\ ~HasKey(SESSION_CACHE, runtime_session_id[t])

\* the request of t has issued a start call or is about to
IssuesStart(t) == pc[t] = START \/ Count(calls[t], START) = 1

\* once the request of t is past the setup step, it has run it
SetupRan(t) ==
    (pc[t] = AGENT \/ ReturnedOk(t)) =>
        /\ is_new_session[t]
        /\ Count(calls[t], WRITE) = 1
        /\ Count(calls[t], EXEC) = 1
        /\ Count(calls[t], LIST) = 1

\* C3 as stated: after any request with key k raised inside the try block,
\* the next request with key k issues a new start call and runs the setup
\* step again, and no cache entry maps to a session a failed request used.
C3_RetryStartsFresh_Original ==
    /\ \A k \in Keys : Entries(SESSION_CACHE, k) \cap failedSids = {}
    /\ \A t \in Threads :
        (pc[t] # "idle" /\ prev[t] \in {"error", "error_overlapped"}) =>
            IssuesStart(t) /\ SetupRan(t)

\* C3 amended: under any interleaving no cache entry maps to a session that a
\* failed request with a key used; and after a request with key k that no
\* other request with key k overlapped raised inside the try block, the next
\* request with key k issues a new start call and runs the setup step again.
C3_RetryStartsFresh ==
    /\ \A k \in Keys : Entries(SESSION_CACHE, k) \cap failedSids = {}
    /\ \A t \in Threads :
        (pc[t] # "idle" /\ prev[t] = "error") =>
            IssuesStart(t) /\ SetupRan(t)

C3_Witness ==
    \E t \in Threads :
        /\ ReturnedOk(t) /\ prev[t] = "error"
        /\ failedSids # {}
        /\ session_id[t] \notin failedSids
        /\ calls[t] = <<START, WRITE, EXEC, LIST, AGENT>>

\* C4: in every reachable state SESSION_CACHE holds at most one session id
\* per runtime session key.
C4_OneSessionPerKey ==
    \A k \in Keys : Cardinality(Entries(SESSION_CACHE, k)) <= 1

\* a state after the second of two writes for the same key
C4_Witness ==
    \E t, u \in Threads :
        /\ t # u
        /\ runtime_session_id[t] # None
        /\ runtime_session_id[t] = runtime_session_id[u]
        /\ is_new_session[t] /\ is_new_session[u]
        /\ session_id[t] # session_id[u]
        /\ Cardinality(Entries(SESSION_CACHE, runtime_session_id[t])) = 1

\* threads t and u handle requests with the same key at the same time and
\* each started a session of its own, t before u
Raced(t, u) ==
    /\ t # u
    /\ InFlight(t) /\ InFlight(u)
    /\ runtime_session_id[t] # None
    /\ runtime_session_id[t] = runtime_session_id[u]
    /\ is_new_session[t] /\ is_new_session[u]
    /\ session_id[t] < session_id[u]

\* C5: when two concurrent requests for the same key each started a session,
\* the session started first is referenced by no cache entry and is still
\* live (never stopped), and the cache holds at most one entry for the key,
\* which maps to a session started no earlier than the second one.
C5_RaceOrphansFirstSession ==
    \A t, u \in Threads :
        Raced(t, u) =>
            /\ session_id[t] \in live
            /\ \A k \in Keys : session_id[t] \notin Entries(SESSION_CACHE, k)
            /\ Cardinality(Entries(SESSION_CACHE, runtime_session_id[t])) <= 1
            /\ \A s \in Entries(SESSION_CACHE, runtime_session_id[t]) :
                   s >= session_id[u]

\* both requests found the brand-new key absent (nothing has ended on it),
\* both sessions are live and the cache maps the key to the second one
C5_Witness ==
    \E t, u \in Threads :
        /\ Raced(t, u)
        /\ lastDone[runtime_session_id[t]] = "none"
        /\ {session_id[t], session_id[u]} \subseteq live
        /\ SESSION_CACHE = {<<runtime_session_id[t], session_id[u]>>}

\* the step is the end of a request with key k that raises
RaisesWithKey(k) ==
    \E t \in Threads :
        /\ runtime_session_id[t] = k
        /\ InFlight(t)
        /\ pc'[t] = "done"
        /\ outcome'[t] = "error"

\* the step is the cache write of a request with key k that started a session
StoresNewSession(k) ==
    \E t \in Threads :
        /\ runtime_session_id[t] = k
        /\ pc[t] = START
        /\ pc'[t] = WRITE
        /\ Entries(SESSION_CACHE', k) = {session_id'[t]}

\* C6: under any interleaving a step of a request or of a cleanup call that
\* carries key k1 leaves the entry of every other key k2 as it was, and a
\* request never uses a session that the cache maps to a key other than its
\* own.
C6_KeysDoNotInterfere ==
    /\ [](\A t \in Threads :
            (pc[t] # "idle" /\ session_id[t] # NoSession) =>
                \A k2 \in Keys \ {runtime_session_id[t]} :
                    session_id[t] \notin Entries(SESSION_CACHE, k2))
    /\ [][/\ \A t \in Threads :
                pc'[t] # pc[t] =>
                    \A k2 \in Keys \ {runtime_session_id[t], runtime_session_id'[t]} :
                        Entries(SESSION_CACHE', k2) = Entries(SESSION_CACHE, k2)
          /\ \A k1 \in Keys :
                cleanup_session(k1) =>
                    \A k2 \in Keys \ {k1} :
                        Entries(SESSION_CACHE', k2) = Entries(SESSION_CACHE, k2)
         ]_vars

\* a request with one key raised and the entry of the other key is in place
C6_Witness ==
    \E t \in Threads :
        /\ Raised(t) /\ is_new_session[t] /\ runtime_session_id[t] # None
        /\ \E k2 \in Keys \ {runtime_session_id[t]} :
              /\ HasKey(SESSION_CACHE, k2)
              /\ session_id[t] \notin Entries(SESSION_CACHE, k2)

\* C7 as stated: the session started for a request without a runtime session
\* key is stopped by the time the request ends, on success and on failure.
C7_KeylessSessionStopped ==
    \A t \in Threads :
        (pc[t] = "done" /\ runtime_session_id[t] = None
         /\ session_id[t] # NoSession) =>
            session_id[t] \notin live

\* C8: when a request with key k returns successfully and no other request or
\* cleanup call ran during it, SESSION_CACHE maps k to the session the request
\* used and that session has not been stopped.
C8_SuccessKeepsSession ==
    \A t \in Threads :
        (ReturnedOk(t) /\ alone[t] /\ runtime_session_id[t] # None) =>
            /\ Entries(SESSION_CACHE, runtime_session_id[t]) = {session_id[t]}
            /\ session_id[t] \in live

C8_Witness ==
    \E t \in Threads :
        /\ ReturnedOk(t) /\ alone[t] /\ runtime_session_id[t] # None
        /\ is_new_session[t]
        /\ calls[t] = <<START, WRITE, EXEC, LIST, AGENT>>
        /\ <<runtime_session_id[t], session_id[t]>> \in SESSION_CACHE
        /\ session_id[t] \in live

\* C9 as stated: the entry of key k keeps its session id in every step other
\* than cleanup_session(k) and the end of a request with key k that raises.
C9_OnlyExplicitRemoval_Original ==
    [][\A k \in Keys :
          (HasKey(SESSION_CACHE, k)
           /\ Entries(SESSION_CACHE', k) # Entries(SESSION_CACHE, k)) =>
              (cleanup_session(k) \/ RaisesWithKey(k))
      ]_vars

\* C9 amended: the entry of key k is removed only by cleanup_session(k) or by
\* a request with key k that raises; every other step leaves the key mapped,
\* and its session id changes only when a request with key k that found the
\* key absent starts a session and overwrites the entry.
C9_OnlyExplicitRemoval ==
    [][\A k \in Keys :
          /\ (HasKey(SESSION_CACHE, k) /\ ~HasKey(SESSION_CACHE', k)) =>
                (cleanup_session(k) \/ RaisesWithKey(k))
          /\ (HasKey(SESSION_CACHE, k)
              /\ Entries(SESSION_CACHE', k) # Entries(SESSION_CACHE, k)) =>
                (cleanup_session(k) \/ RaisesWithKey(k) \/ StoresNewSession(k))
      ]_vars

\* the older entry of one key is in place after a request with the other key
\* started its own session and returned
C9_Witness ==
    \E t \in Threads :
        /\ ReturnedOk(t) /\ is_new_session[t] /\ runtime_session_id[t] # None
        /\ \E k \in Keys \ {runtime_session_id[t]} :
              \E s \in Entries(SESSION_CACHE, k) : s < session_id[t]

\* C10: for every key, mapped or not, cleanup_session answers 200, leaves the
\* key without an entry, and a second call for the same key answers 200 again
\* and leaves the cache as the first call left it.
C10_CleanupIdempotent ==
    /\ cleanup_response.status \in {0, 200}
    /\ \A k \in Keys :
        LET first == CleanupCache(SESSION_CACHE, k) IN
        /\ CleanupResponse(SESSION_CACHE, k).status = 200
        /\ ~HasKey(first, k)
        /\ CleanupResponse(first, k).status = 200
        /\ ~CleanupResponse(first, k).found
        /\ CleanupCache(first, k) = first

\* a call removed the entry of a key and the next call for that key, with no
\* request for the key in between, found none and answered 200
C10_Witness ==
    \E k \in Keys :
        /\ lastDone[k] = "cleanup_again"
        /\ cleanup_response = [status |-> 200, found |-> FALSE]
        /\ ~HasKey(SESSION_CACHE, k)

\* the request of thread t carries no runtime session key
Keyless(t) == pc[t] # "idle" /\ runtime_session_id[t] = None

\* a step of the keyless request of thread t
KeylessStep(t) ==
    /\ pc'[t] # pc[t]
    /\ pc'[t] # "idle"
    /\ runtime_session_id'[t] = None

\* C11: a request is keyless exactly when neither the payload nor the session
\* header holds a key; every keyless request that passes the configuration
\* check issues the start call and its session is in no SESSION_CACHE entry,
\* and no step of a keyless request, successful or failing, writes or deletes
\* an entry.
C11_KeylessBypassesCache ==
    /\ [](\A payload \in KeyOrNone, header \in KeyOrNone :
            (ResolveKey(payload, header) = None)
                <=> (payload = None /\ header = None))
    /\ [](\A t \in Threads :
            (Keyless(t) /\ CODE_INTERPRETER_TOOL_ID \notin {None, ""}) =>
                /\ IssuesStart(t)
                /\ pc[t] # START => is_new_session[t] \/ Raised(t)
                /\ \A k \in Keys : session_id[t] \notin Entries(SESSION_CACHE, k))
    /\ [][\A t \in Threads : KeylessStep(t) => SESSION_CACHE' = SESSION_CACHE]_vars

\* a keyless request failed inside the try block while the cache held an entry
C11_Witness ==
    \E t \in Threads :
        /\ Keyless(t) /\ Raised(t)
        /\ is_new_session[t]
        /\ Len(calls[t]) >= 2
        /\ SESSION_CACHE # {}

IsPrefix(s1, s2) ==
    /\ Len(s1) <= Len(s2)
    /\ \A i \in 1..Len(s1) : s1[i] = s2[i]

\* C12: on a newly started session the calls of a request are, in this order,
\* the start call, writeFiles, executeCommand, listFiles and only then the
\* agent; writeFiles leaves one file '{name}.csv' per table of the request in
\* the session; a request on a reused session issues none of the three.
C12_SetupOrder ==
    \A t \in Threads :
        /\ (pc[t] # "idle" /\ is_new_session[t]) =>
            /\ IsPrefix(calls[t], <<START, WRITE, EXEC, LIST, AGENT>>)
            /\ pc[t] = AGENT => calls[t] = <<START, WRITE, EXEC, LIST>>
            /\ ReturnedOk(t) => calls[t] = <<START, WRITE, EXEC, LIST, AGENT>>
            /\ Count(calls[t], EXEC) = 1 =>
                /\ \A n \in dataframes[t] : (n \o ".csv") \in files[session_id[t]]
                /\ Cardinality(files[session_id[t]]) = Cardinality(dataframes[t])
        /\ (pc[t] # "idle" /\ ~is_new_session[t] /\ session_id[t] # NoSession) =>
            /\ NoSetup(calls[t])
            /\ IsPrefix(calls[t], <<AGENT>>)

\* a request set a new session up for two tables and returned
C12_Witness ==
    \E t \in Threads :
        /\ ReturnedOk(t)
        /\ calls[t] = <<START, WRITE, EXEC, LIST, AGENT>>
        /\ Cardinality(dataframes[t]) = 2
        /\ files[session_id[t]] = {"sales.csv", "customers.csv"}

\* C17: while CODE_INTERPRETER_TOOL_ID is unset or empty every request, keyed
\* or keyless, ends with the configuration error without a start call having
\* been issued and SESSION_CACHE is as it was; with the identifier set no
\* request ends with that error.
C17_ConfigErrorBeforeStart ==
    IF CODE_INTERPRETER_TOOL_ID \in {None, ""}
    THEN /\ issued = 0
         /\ live = {}
         /\ SESSION_CACHE = {}
         /\ \A t \in Threads :
               /\ pc[t] \in {"idle", "done"}
               /\ pc[t] = "done" =>
                     /\ outcome[t] = "config_error"
                     /\ calls[t] = <<>>
                     /\ session_id[t] = NoSession
    ELSE \A t \in Threads : outcome[t] # "config_error"

\* a keyed request ended with the configuration error
C17_Witness ==
    \E t \in Threads :
        /\ pc[t] = "done"
        /\ outcome[t] = "config_error"
        /\ runtime_session_id[t] \in Keys
        /\ CODE_INTERPRETER_TOOL_ID = ""

AdapterOps == {"invoke_tool", "write_files", "list_files", "execute_python"}

C14_FirstEventResult ==
    /\ (lastOp.op \in AdapterOps /\ lastOp.raised = "none"
            /\ Len(lastOp.stream) >= 1) =>
          /\ lastOp.result = JsonDumps(lastOp.stream[1])
          /\ lastOp.stream[1].content = "4"
                => lastOp.result = "{\"content\": \"4\", \"isError\": false}"
          /\ lastOp.stream[1].content = "NameError"
                => lastOp.result = "{\"content\": \"NameError\", \"isError\": true}"
    /\ \A s1 \in Streams, s2 \in Streams :
          (Len(s1) >= 1 /\ Len(s2) >= 1 /\ s1[1] = s2[1])
              => FirstResult(s1) = FirstResult(s2)

\* on a started session invoke_tool got two different events and returned the
\* serialization of the first
C14_Witness ==
    /\ phase = "started"
    /\ remote_active
    /\ lastOp.op = "invoke_tool"
    /\ Len(lastOp.stream) = 2
    /\ lastOp.stream[1] # lastOp.stream[2]
    /\ lastOp.result = "{\"content\": \"4\", \"isError\": false}"

\* the request the handler serves fails validation
Invalid == Len(hreq.s3_urls) = 0 \/ hreq.prompt = ""

\* C15: a request with empty s3_urls or an empty prompt is answered 400 and,
\* when it is, no object has been fetched, no start call issued and no
\* SESSION_CACHE entry read or written.
C15_ValidationFirst ==
    /\ []((hpc # "idle" /\ Invalid) =>
            /\ hpc = "responded"
            /\ hresp.status = 400
            /\ hresp.error # ""
            /\ fetched = <<>>
            /\ idx = 0
            /\ started = 0)
    /\ [][(hpc = "idle" /\ hresp'.status = 400) =>
            UNCHANGED <<SESSION_CACHE, issued, live>>]_vars

\* a request with an empty prompt was answered 400 while the cache held a
\* session
C15_Witness ==
    /\ hpc = "responded"
    /\ hreq.variant = "fastapi"
    /\ Len(hreq.s3_urls) = 2
    /\ hreq.prompt = ""
    /\ hresp.status = 400
    /\ SESSION_CACHE # {}

CannotLoad == {<<"gone", "parquet">>, <<"notes", "txt">>}

\* the position of the first reference of the request that cannot be loaded
FirstBad ==
    CHOOSE i \in 1..Len(hreq.s3_urls) :
        /\ hreq.s3_urls[i].key \in CannotLoad
        /\ \A j \in 1..(i - 1) : hreq.s3_urls[j].key \notin CannotLoad

\* C18: when one reference of a valid request cannot be loaded, be it for its
\* extension or for a failing fetch, each reference up to it is fetched once
\* and none after it, no table is yielded, the request is answered 500 and no
\* start call is issued and no SESSION_CACHE entry changed for it.
C18_LoadFailureIsFatal ==
    /\ []((~Invalid /\ \E i \in 1..Len(hreq.s3_urls) :
                          hreq.s3_urls[i].key \in CannotLoad) =>
            /\ hpc \in {"load", "responded"}
            /\ started = 0
            /\ Len(fetched) <= FirstBad
            /\ \A i \in 1..Len(fetched) : fetched[i] = hreq.s3_urls[i].key
            /\ hpc = "responded" =>
                  /\ Len(fetched) = FirstBad
                  /\ raised.kind \in {"ValueError", "ClientError"}
                  /\ hresp.status = 500
                  /\ hresp.dataframes_loaded = {}
                  /\ all_dataframes = NoTables)
    /\ [][(hpc = "load" /\ hpc' = "responded") =>
            UNCHANGED <<SESSION_CACHE, issued, live>>]_vars

\* the second reference of a request could not be fetched after the first
\* was loaded
C18_Witness ==
    /\ hpc = "responded"
    /\ Len(fetched) = 2
    /\ hreq.s3_urls[1].key = <<"book", "XLSX">>
    /\ hreq.s3_urls[2].key = <<"gone", "parquet">>
    /\ hresp.status = 500
    /\ all_dataframes = NoTables

\* the names the tables of reference i of the request are to have
NamesOf(i) ==
    LET N == hreq.s3_urls[i].name
        sheets == SheetNames(hreq.s3_urls[i].key)
    IN  IF Cardinality(sheets) >= 2 THEN {N \o "_" \o sh : sh \in sheets}
        ELSE {N}

\* C19: of the references loaded so far, a spreadsheet with two or more
\* sheets has one table per sheet under the name N_<sheet>, every other
\* reference has its one table under the name N; a request with the one
\* reference N holds exactly these tables, so none named N for a
\* spreadsheet of two or more sheets.
C19_TableNaming ==
    (hpc \in {"load", "analyze"} \/ hresp.status = 200) =>
        /\ \A i \in 1..idx : NamesOf(i) \subseteq DOMAIN all_dataframes
        /\ (Len(hreq.s3_urls) = 1 /\ idx = 1) =>
              LET N == hreq.s3_urls[1].name
                  key == hreq.s3_urls[1].key
                  sheets == SheetNames(key)
              IN  /\ DOMAIN all_dataframes = NamesOf(1)
                  /\ Cardinality(sheets) >= 2 =>
                        /\ N \notin DOMAIN all_dataframes
                        /\ Cardinality(DOMAIN all_dataframes) = Cardinality(sheets)
                        /\ \A sh \in sheets :
                              all_dataframes[N \o "_" \o sh] = Table(key, sh)
                  /\ Cardinality(sheets) = 1 =>
                        all_dataframes = [n \in {N} |-> Table(key, "A")]
                  /\ Cardinality(sheets) = 0 =>
                        all_dataframes = [n \in {N} |-> Table(key, "data")]

\* the one reference N of a request is a spreadsheet of two sheets and its
\* tables are N_A and N_B
C19_Witness ==
    /\ hpc = "analyze"
    /\ Len(hreq.s3_urls) = 1
    /\ hreq.s3_urls[1].name = "N"
    /\ hreq.s3_urls[1].key = <<"book", "XLSX">>
    /\ DOMAIN all_dataframes = {"N_A", "N_B"}

\* the last segments that are chart names, whatever their case
ChartNamesOfBucket == {<<"a", "png">>, <<"c", "JPG">>, <<"d", "jpeg">>,
                       <<"e", "Svg">>, <<"f", "pdf">>, <<"g", "png">>}

\* the objects under charts/{k}/ that are charts
ChartsOf(k) ==
    {o \in bucket_objects :
        /\ Len(o.dir) >= 2 /\ o.dir[1] = "charts" /\ o.dir[2] = k
        /\ o.name \in ChartNamesOfBucket}

RaisesInTry(t) ==
    /\ pc[t] \in {WRITE, EXEC, LIST, AGENT}
    /\ pc'[t] = "done"
    /\ outcome'[t] = "error"

\* C25: under any interleaving, the entries a failing request removes from
\* SESSION_CACHE map its key to the session the request itself used; it
\* removes no entry that holds another session.
C25_DeletesOwnEntryOnly ==
    [][\A t \in Threads :
          RaisesInTry(t) =>
              \A e \in SESSION_CACHE \ SESSION_CACHE' :
                  /\ e[1] = runtime_session_id[t]
                  /\ e[2] = session_id[t]]_vars

\* a step of cleanup_session: no request moves
CleanupStep == pc' = pc

\* C27: a call of cleanup_session removes the entry of one key and nothing
\* else: every other entry keeps its session, no session is stopped and no
\* remote call is issued, and the session whose entry was removed stays live
\* while no entry of the cache refers to it any more.
C27_CleanupFrame ==
    [][CleanupStep =>
          /\ \E k \in Keys :
                /\ SESSION_CACHE' = {e \in SESSION_CACHE : e[1] # k}
                /\ cleanup_response'.found = (\E e \in SESSION_CACHE : e[1] = k)
          /\ live' = live
          /\ issued' = issued
          /\ calls' = calls
          /\ files' = files
          /\ \A e \in SESSION_CACHE \ SESSION_CACHE' :
                /\ e[2] \in live'
                /\ \A f \in SESSION_CACHE' : f[2] # e[2]]_vars

\* cleanup_session removed the entry of one key while the other key kept
\* its entry, and both sessions are live
C27_Witness ==
    /\ cleanup_response.found
    /\ \E k \in Keys :
          /\ lastDone[k] = "cleanup"
          /\ ~HasKey(SESSION_CACHE, k)
          /\ \E j \in Keys \ {k} : HasKey(SESSION_CACHE, j)
    /\ Cardinality(live) = 2

\* C26: the manager holds a client only if the remote start call succeeded:
\* after a start call that raised, the manager has no client, so that a later
\* start_session issues the start call again.
C26_NoClientAfterFailedStart ==
    phase = "start_failed" => code_client = None

RECURSIVE TablesRead(_)
\* the number of tables read from the references of a request
TablesRead(s3_urls) ==
    IF s3_urls = <<>> THEN 0
    ELSE Cardinality(DOMAIN load_from_s3(Head(s3_urls).key).dataframes)
         + TablesRead(Tail(s3_urls))

\* C28: load_multiple_from_s3 loses no table: when every reference was
\* loaded, the number of tables it returns is the sum, over the references,
\* of the number of tables read from each; the names never collide.
C28_NoTableLost ==
    hpc = "analyze" =>
        Cardinality(DOMAIN all_dataframes) = TablesRead(hreq.s3_urls)

\* C24: whenever the agent loop of a request starts, every file '{name}.csv'
\* announced for the tables of the request has been written to the session
\* the agent uses, also when the session is reused and the tables differ from
\* those of the request that set it up.
C24_AnnouncedFilesWritten ==
    \A t \in Threads :
        pc[t] = AGENT => dataframe_info(dataframes[t]) \subseteq files[session_id[t]]

\* the trace header item h went out with the invocation
Forwarded(h) == \E a \in invocation : a[2] = h[2]

\* C21: POST /chat forwards the trace headers of the incoming request, those
\* extract_trace_headers recognises, to the invocation of the remote agent
\* runtime.
C21_TraceHeadersForwarded ==
    cpc = "invoke" =>
        \A h \in extract_trace_headers(creq.headers) : Forwarded(h)

\* C22: POST /chat resolves one runtime session id per request: the value of
\* the session header when present and not empty, else the environment
\* variable BEDROCK_AGENT_RUNTIME_SESSION_ID when set and not empty, else a
\* new id; the invocation, the chart prefix and trace.runtime_session_id of
\* the response all carry that id.
C22_OneRuntimeSessionId ==
    LET header == HeaderSessionId(creq.headers)
        environ == creq.environ.BEDROCK_AGENT_RUNTIME_SESSION_ID
        sid == IF header \notin {None, ""} THEN header
               ELSE IF environ \notin {None, ""} THEN environ
               ELSE Uuid4Hex(uuid_count)
    IN  /\ cpc = "invoke" =>
            /\ chat_session_id = sid
            /\ {a \in invocation : a[1] = "runtimeSessionId"}
                   = {<<"runtimeSessionId", sid>>}
        /\ (cpc = "responded" /\ cresp.status = 200) =>
            /\ {a \in invocation : a[1] = "runtimeSessionId"}
                   = {<<"runtimeSessionId", sid>>}
            /\ cresp.runtime_session_id = sid
            /\ creq.environ.S3_BUCKET_NAME = "bucket" =>
                   /\ chart_call.session_id = sid
                   /\ ChartPrefix(chart_call.session_id) = <<"charts", sid>>
            /\ creq.environ.S3_BUCKET_NAME = None => chart_call = NoChartCall

\* a request without session header was served under the id of the
\* environment, and its charts were looked up
C22_Witness ==
    /\ cpc = "responded"
    /\ cresp.status = 200
    /\ HeaderSessionId(creq.headers) = ""
    /\ cresp.runtime_session_id = "env-1"
    /\ chart_call = [session_id |-> "env-1", listing |-> "ok"]

\* C29: a successful POST /upload of n files returns s3_urls with n entries,
\* one per file under the file's base name, also when two files have the
\* same base name and differ in their extension only.
C29_OneUrlPerFile ==
    (upc = "responded" /\ uresp.status = 200) =>
        Cardinality(uresp.s3_urls) = Len(normalized_files)

\* the run is over: a final answer, the stopped response, or an error
RunOver == apc \in {"finished", "stopped", "raised"}

\* C23: every orchestration run terminates: the loop alternates model turns
\* and tool invocations and ends with a final answer or when the budget of
\* analyze_data_with_agentcore, 40 iterations, is used up; a run never
\* issues more tool invocations than that budget.
C23_RunTerminatesWithinBudget ==
    /\ [](tool_rounds <= 40 /\ iterations <= 40)
    /\ [](apc = "stopped" => iterations = 40)
    /\ (apc = "model") ~> RunOver

\* a run used its whole budget on tool invocations and was stopped
C23_Witness ==
    /\ apc = "stopped"
    /\ tool_rounds = 40
====
